---- MODULE Spec2Model ----
(***************************************************************************)
(* Rendering Resource Manager: the session lifecycle engine                *)
(* (session_manager.py), the slurm job manager (job_manager.py), the       *)
(* keep-alive sweeper and the REST parameter formatter                     *)
(* (rendering_resource_settings_manager.py).                               *)
(*                                                                         *)
(* Requests are served by parallel threads.  A handler reads a Session row *)
(* into a private object (Session.objects.get), changes the object and     *)
(* writes the whole object back (session.save()).  Every database access   *)
(* is one step of the model, so that other threads can run between the     *)
(* read and the write of one handler.                                      *)
(*                                                                         *)
(* Django's Model.save() without force_insert first tries an UPDATE of the *)
(* row with the object's primary key and, when no row was updated, INSERTs *)
(* the object: Save below is an upsert of all fields.                      *)
(***************************************************************************)
EXTENDS Integers, Sequences, FiniteSets, TLC

\* ------------------------------------------------------------------ bounds
MaxTime == 2          \* the clock runs over 0 .. MaxTime
MaxCalls == 4         \* client requests started in one behaviour
MaxSweeps == 2        \* sweeps of the keep-alive thread in one behaviour
MaxJobs == 1          \* jobs the cluster accepts in one behaviour
KeepAliveTimeout == 1 \* SystemGlobalSettings.session_keep_alive_timeout, in ticks
MaxFmtLen == 5        \* longest format string given to format_rest_parameters
MaxConfigCalls == 4   \* settings requests started in one behaviour
MaxAdapterCalls == 4  \* JobManager methods called in one behaviour

\* ------------------------------------------------------------------ inputs
SessionIds == {"s1", "s2"}
\* the authenticated user of each client thread
OwnerOf == [c \in {"c1", "c2"} |-> IF c = "c1" THEN "alice" ELSE "bob"]
ConfigurationIds == {"livre"}
Clients == {"c1", "c2"}
Sweeper == "sweeper"
Threads == Clients \cup {Sweeper}

\* ------------------------------------------------------- session/models.py
SESSION_STATUS_STOPPED == "STOPPED"
SESSION_STATUS_SCHEDULING == "SCHEDULING"
SESSION_STATUS_SCHEDULED == "SCHEDULED"
SESSION_STATUS_GETTING_HOSTNAME == "GETTING_HOSTNAME"
SESSION_STATUS_STARTING == "STARTING"
SESSION_STATUS_RUNNING == "RUNNING"
SESSION_STATUS_STOPPING == "STOPPING"
SESSION_STATUS_FAILED == "FAILED"
SESSION_STATUS_BUSY == "BUSY"

NoJob == 0            \* job_id None or ''
NoPid == -1           \* process_pid of a session without a local process
NoHost == ""          \* http_host of a session whose host is not known
NoPort == 0
RendererHost == "node"
RendererPort == 3000

HTTP_200_OK == 200
HTTP_201_CREATED == 201
HTTP_400_BAD_REQUEST == 400
HTTP_403_FORBIDDEN == 403
HTTP_404_NOT_FOUND == 404
HTTP_409_CONFLICT == 409
HTTP_500_INTERNAL_SERVER_ERROR == 500
UncaughtException == 0  \* the handler ended by raising instead of returning

VARIABLES
    sessions,          \* the Session table: session id -> row
    session_creation,  \* SystemGlobalSettings(id=0).session_creation
    connected,         \* JobManager._connected
    njobs,             \* jobs submitted to the cluster so far
    now,               \* the clock (datetime.datetime.now())
    thr,               \* per thread: position, session id, private Session object
    sweep,             \* the keep-alive thread's sweep: snapshot of now, sessions still to
                       \* delete, the table as it was at the snapshot (history), sweeps begun
    calls,             \* client requests started so far
    response,          \* what the step just taken returned to its caller
    deleted,           \* history: ids whose delete_session returned 200 since their last 201
    fresh,             \* history: ids whose create_session returned 201 with no
                       \* delete_session running on them then or begun since
    fmt_in,            \* format_rest_parameters: the arguments
    fmt_out,           \* format_rest_parameters: whether it was called, and its result
    settings,          \* the RenderingResourceSettings table: its rows, oldest first
    cfg_thr,           \* per client: position in a settings request, private settings object
    cfg_calls,         \* settings requests started so far
    cfg_response,      \* what the settings step just taken returned
    cfg_created,       \* history: per id, the params of its create if nothing has
                       \* written or removed its row since
    cfg_deleted,       \* history: ids whose delete returned 200 since their last 201
    mutex,             \* JobManager._mutex: the thread that holds it, or NoThread
    jm_thr,            \* per thread: its position in a JobManager method, and the method
    jm_calls,          \* JobManager methods called so far
    jm_response,       \* what the JobManager method that just ended returned
    jm_stop,           \* history: the requests the running or last stop has sent
    probe              \* history: what the last request_vocabulary met, the renderer's
                       \* answer to the PUT and the state of the job at the cluster

vars == <<sessions, session_creation, connected, njobs, now, thr, sweep, calls,
          response, deleted, fresh, fmt_in, fmt_out,
          settings, cfg_thr, cfg_calls, cfg_response, cfg_created, cfg_deleted,
          mutex, jm_thr, jm_calls, jm_response, jm_stop, probe>>
sessionVars == <<sessions, session_creation, connected, njobs, now, thr, sweep,
                 calls, response, deleted, fresh>>
fmtVars == <<fmt_in, fmt_out>>
cfgVars == <<settings, cfg_thr, cfg_calls, cfg_response, cfg_created, cfg_deleted>>
jmVars == <<mutex, jm_thr, jm_calls, jm_response, jm_stop>>

\* ---------------------------------------------------------------- records
\* A Session object as create_session builds it; the fields it does not pass
\* take the model's defaults.
NewSession(owner, configuration_id, valid_until) ==
    [owner |-> owner, configuration_id |-> configuration_id,
     status |-> SESSION_STATUS_SCHEDULING, job_id |-> NoJob,
     process_pid |-> NoPid, http_host |-> NoHost, http_port |-> NoPort,
     valid_until |-> valid_until]

NoSession == NewSession("", "", 0)
IdleThread == [pc |-> "idle", sid |-> "", sess |-> NoSession]
NoResponse == [t |-> "", op |-> "", sid |-> "", code |-> 0, status |-> ""]
Response(t, op, sid, code, status) ==
    [t |-> t, op |-> op, sid |-> sid, code |-> code, status |-> status]
NoSweep == [snap |-> 0, todo |-> {}, rows |-> <<>>, n |-> 0]

\* ------------------------------------------------------------ the database
Exists(db, s) == s \in DOMAIN db

\* session.save(force_insert=True): INSERT, IntegrityError on a duplicate key
ForceInsert(db, s, row) ==
    [x \in DOMAIN db \cup {s} |-> IF x = s THEN row ELSE db[x]]

\* session.save(): UPDATE all fields, INSERT when no row has the key
Save(db, s, row) ==
    [x \in DOMAIN db \cup {s} |-> IF x = s THEN row ELSE db[x]]

\* session.delete(): DELETE the row with the object's key, if any
\* (DeleteAllRows: a DELETE without its WHERE clause)
DeleteAllRows(db, s) == <<>>
DeleteRow(db, s) ==
    [x \in DOMAIN db \ {s} |-> db[x]]

\* ------------------------------------------------------------ thread moves
\* The position a thread returns to when its delete_session call ends: the
\* keep-alive thread goes on with its sweep, a client is done.
AfterCall(t) == IF t = Sweeper THEN [IdleThread EXCEPT !.pc = "sweep_loop"] ELSE IdleThread

Goto(t, pc, sid, sess) == thr' = [thr EXCEPT ![t] = [pc |-> pc, sid |-> sid, sess |-> sess]]
Return(t) == thr' = [thr EXCEPT ![t] = AfterCall(t)]

ClientStarts(t) ==
    /\ t \in Clients
    /\ thr[t].pc = "idle"
    /\ calls < MaxCalls
    /\ calls' = calls + 1

\* -------------------------------------------------------- create_session
create_valid_until(n) == n + KeepAliveTimeout

\* "if sgs.session_creation:"
\* (CreationEnabledAlways: the flag ignored)
CreationEnabledAlways(flag) == TRUE
CreationEnabled(flag) == flag

\* session.save(force_insert=True) raises IntegrityError when the key is taken
\* (IntegrityErrorNever: an insert that never fails)
IntegrityErrorNever(db, s) == FALSE
IntegrityError(db, s) == Exists(db, s)

create_session(t, s, configuration_id) ==
    /\ ClientStarts(t)
    /\ IF CreationEnabled(session_creation)
       THEN /\ Goto(t, "create_save", s,
                    NewSession(OwnerOf[t], configuration_id, create_valid_until(now)))
            /\ response' = NoResponse
       ELSE /\ response' = Response(t, "create_session", s, HTTP_403_FORBIDDEN, "")
            /\ UNCHANGED thr
    /\ UNCHANGED <<sessions, session_creation, connected, njobs, now, sweep, deleted, fresh, fmtVars, cfgVars, jmVars, probe>>

\* Some thread is inside delete_session for s.
InDeleteSession(s) ==
    \E t \in Threads :
       /\ thr[t].sid = s
       /\ thr[t].pc \in {"delete_save", "delete_stop", "delete_kill", "delete_row"}

create_session_save(t) ==
    /\ thr[t].pc = "create_save"
    /\ LET s == thr[t].sid IN
       IF IntegrityError(sessions, s)
       THEN /\ response' = Response(t, "create_session", s, HTTP_409_CONFLICT, "")
            /\ UNCHANGED <<sessions, deleted, fresh>>
       ELSE /\ sessions' = ForceInsert(sessions, s, thr[t].sess)
            /\ deleted' = deleted \ {s}
            /\ fresh' = IF InDeleteSession(s) THEN fresh ELSE fresh \cup {s}
            /\ response' = Response(t, "create_session", s, HTTP_201_CREATED, "")
    /\ Return(t)
    /\ UNCHANGED <<session_creation, connected, njobs, now, sweep, calls, fmtVars, cfgVars, jmVars, probe>>

\* ----------------------------------------- suspend_sessions, resume_sessions
suspend_sessions(t) ==
    /\ ClientStarts(t)
    /\ session_creation' = FALSE
    /\ response' = Response(t, "suspend_sessions", "", HTTP_200_OK, "")
    /\ UNCHANGED <<sessions, connected, njobs, now, thr, sweep, deleted, fresh, fmtVars, cfgVars, jmVars, probe>>

resume_sessions(t) ==
    /\ ClientStarts(t)
    /\ session_creation' = TRUE
    /\ response' = Response(t, "resume_sessions", "", HTTP_200_OK, "")
    /\ UNCHANGED <<sessions, connected, njobs, now, thr, sweep, deleted, fresh, fmtVars, cfgVars, jmVars, probe>>

\* ------------------------------------------------------ keep_alive_session
\* (keep_alive_valid_until_now: the timeout left out)
keep_alive_valid_until_now(n) == n
keep_alive_valid_until(n) == n + KeepAliveTimeout

\* session.valid_until = ...: the object keep_alive_session saves
\* (keep_alive_object_rescheduled: the status set as well)
keep_alive_object_rescheduled(session, n) ==
    [session EXCEPT !.valid_until = keep_alive_valid_until(n),
                    !.status = SESSION_STATUS_SCHEDULING]
keep_alive_object(session, n) ==
    [session EXCEPT !.valid_until = keep_alive_valid_until(n)]

keep_alive_session(t, s) ==
    /\ ClientStarts(t)
    /\ IF Exists(sessions, s)
       THEN /\ Goto(t, "keep_alive_save", s, keep_alive_object(sessions[s], now))
            /\ response' = NoResponse
       ELSE /\ response' = Response(t, "keep_alive_session", s, HTTP_404_NOT_FOUND, "")
            /\ UNCHANGED thr
    /\ UNCHANGED <<sessions, session_creation, connected, njobs, now, sweep, deleted, fresh, fmtVars, cfgVars, jmVars, probe>>

keep_alive_session_save(t) ==
    /\ thr[t].pc = "keep_alive_save"
    /\ sessions' = Save(sessions, thr[t].sid, thr[t].sess)
    /\ response' = Response(t, "keep_alive_session", thr[t].sid, HTTP_200_OK, "")
    /\ Return(t)
    /\ UNCHANGED <<session_creation, connected, njobs, now, sweep, calls, deleted, fresh, fmtVars, cfgVars, jmVars, probe>>

\* ------------------------------------------------------------ query_status
\* RenderingResourceSettings declares id, command_line, environment_variables,
\* modules, process_rest_parameters_format, scheduler_rest_parameters_format and
\* graceful_exit: reading any other attribute of a settings object raises
\* AttributeError.
RenderingResourceSettingsFields ==
    {"id", "command_line", "environment_variables", "modules",
     "process_rest_parameters_format", "scheduler_rest_parameters_format",
     "graceful_exit"}

\* The first database access of query_status and the branch on the status it
\* read.  SCHEDULING, STOPPED, FAILED and a SCHEDULED or GETTING_HOSTNAME session
\* without host answer at once.  The STARTING branch reads
\* rr_settings.wait_until_running, which is no field of the settings model (and
\* get_by_id raises DoesNotExist when the configuration is gone): the handler
\* ends in an exception that query_status does not catch, so the statements that
\* store RUNNING, and with them the RUNNING and BUSY branches, are never reached.
query_status(t, s) ==
    /\ ClientStarts(t)
    /\ IF ~Exists(sessions, s)
       THEN /\ response' = Response(t, "query_status", s, HTTP_404_NOT_FOUND, "")
            /\ UNCHANGED thr
       ELSE LET session == sessions[s]
                session_status == session.status IN
            IF session_status \in {SESSION_STATUS_SCHEDULED, SESSION_STATUS_GETTING_HOSTNAME}
               /\ session.http_host # NoHost
            THEN /\ Goto(t, "query_save", s,
                         [session EXCEPT !.status = SESSION_STATUS_STARTING])
                 /\ response' = NoResponse
            ELSE IF session_status = SESSION_STATUS_STOPPING
            THEN /\ Goto(t, "query_delete", s, session)
                 /\ response' = NoResponse
            ELSE IF session_status = SESSION_STATUS_STARTING
                    /\ "wait_until_running" \notin RenderingResourceSettingsFields
            THEN /\ response' = Response(t, "query_status", s, UncaughtException, "")
                 /\ UNCHANGED thr
            ELSE /\ response' = Response(t, "query_status", s, HTTP_200_OK, session_status)
                 /\ UNCHANGED thr
    /\ UNCHANGED <<sessions, session_creation, connected, njobs, now, sweep, deleted, fresh, fmtVars, cfgVars, jmVars, probe>>

\* session.status = SESSION_STATUS_STARTING; session.save()
query_status_save(t) ==
    /\ thr[t].pc = "query_save"
    /\ sessions' = Save(sessions, thr[t].sid, thr[t].sess)
    /\ response' = Response(t, "query_status", thr[t].sid, HTTP_200_OK, thr[t].sess.status)
    /\ Return(t)
    /\ UNCHANGED <<session_creation, connected, njobs, now, sweep, calls, deleted, fresh, fmtVars, cfgVars, jmVars, probe>>

\* STOPPING branch: session.delete()
query_status_delete(t) ==
    /\ thr[t].pc = "query_delete"
    /\ sessions' = DeleteRow(sessions, thr[t].sid)
    /\ Goto(t, "query_resave", thr[t].sid, thr[t].sess)
    /\ response' = NoResponse
    /\ UNCHANGED <<session_creation, connected, njobs, now, sweep, calls, deleted, fresh, fmtVars, cfgVars, jmVars, probe>>

\* STOPPING branch: session.save() on the object just deleted.  Model.delete()
\* either resets the object's primary key to None (the save then INSERTs a NULL
\* key: IntegrityError, which query_status does not catch) or leaves it (the
\* save then INSERTs the row again), depending on the Django release.
query_status_resave(t) ==
    /\ thr[t].pc = "query_resave"
    /\ \E pk_kept \in BOOLEAN :
          IF pk_kept
          THEN /\ sessions' = Save(sessions, thr[t].sid, thr[t].sess)
               /\ response' = Response(t, "query_status", thr[t].sid, HTTP_200_OK,
                                       thr[t].sess.status)
          ELSE /\ response' = Response(t, "query_status", thr[t].sid, UncaughtException, "")
               /\ UNCHANGED sessions
    /\ Return(t)
    /\ UNCHANGED <<session_creation, connected, njobs, now, sweep, calls, deleted, fresh, fmtVars, cfgVars, jmVars, probe>>

\* ------------------------------------------------------------ JobManager
\* __connect: nothing to do once connected; otherwise saga.job.Service either
\* connects or raises SagaException (response 400).
ConnectOutcomes(isConnected) == IF isConnected THEN {TRUE} ELSE {TRUE, FALSE}

\* JobManager.stop after its connect: the job is cancelled or already gone
\* (200, "cancelled"), it is not cancelled within the wait (400,
\* "not_cancelled"), or a step of the guarded section raises something that stop
\* does not catch (the settings row is gone, a Saga error other than NoSuccess
\* and DoesNotExist): "raised".
StopOutcomes == {"cancelled", "not_cancelled", "raised"}

\* JobManager.kill is handed the session object where get_job expects a job id:
\* it returns 200 or 400, or raises.
KillOutcomes == {"returned", "raised"}

\* create_job: the cluster accepts the job or the submission raises
\* SagaException; get_by_id raises DoesNotExist when the configuration is gone.
SubmitOutcomes == {"submitted", "saga_error", "raised"}

\* -------------------------------------------------------- delete_session
\* Session.objects.get(id=session_id); session.status = SESSION_STATUS_STOPPING
DeleteGet(t, s) ==
    /\ IF Exists(sessions, s)
       THEN /\ Goto(t, "delete_save", s,
                    [sessions[s] EXCEPT !.status = SESSION_STATUS_STOPPING])
            /\ response' = NoResponse
       ELSE /\ response' = Response(t, "delete_session", s, HTTP_404_NOT_FOUND, "")
            /\ thr' = [thr EXCEPT ![t] = AfterCall(t)]
    /\ fresh' = fresh \ {s}

delete_session(t, s) ==
    /\ ClientStarts(t)
    /\ DeleteGet(t, s)
    /\ UNCHANGED <<sessions, session_creation, connected, njobs, now, sweep, deleted, fmtVars, cfgVars, jmVars, probe>>

\* session.save(), then the branch on job_id (process_pid is never set by the
\* operations modelled here, so ProcessManager.stop is not called)
delete_session_save(t) ==
    /\ thr[t].pc = "delete_save"
    /\ sessions' = Save(sessions, thr[t].sid, thr[t].sess)
    /\ Goto(t, IF thr[t].sess.job_id # NoJob THEN "delete_stop" ELSE "delete_row",
            thr[t].sid, thr[t].sess)
    /\ response' = NoResponse
    /\ UNCHANGED <<session_creation, connected, njobs, now, sweep, calls, deleted, fresh, fmtVars, cfgVars, jmVars, probe>>

\* globalJobManager.stop(session): it returns 200 when the job is cancelled (or
\* gone) and 400 when it is not or the cluster cannot be reached; delete_session
\* drops the value and goes on to kill.
delete_session_stop(t) ==
    /\ thr[t].pc = "delete_stop"
    /\ \E c \in ConnectOutcomes(connected), o \in StopOutcomes :
          /\ connected' = c
          /\ IF c /\ o = "raised"
             THEN /\ response' = Response(t, "delete_session", thr[t].sid,
                                          HTTP_500_INTERNAL_SERVER_ERROR, "")
                  /\ Return(t)
             ELSE /\ response' = Response(t, "stop", thr[t].sid,
                                          IF c /\ o = "cancelled" THEN HTTP_200_OK
                                          ELSE HTTP_400_BAD_REQUEST, "")
                  /\ Goto(t, "delete_kill", thr[t].sid, thr[t].sess)
    /\ UNCHANGED <<sessions, session_creation, njobs, now, sweep, calls, deleted, fresh, fmtVars, cfgVars, jmVars, probe>>

\* globalJobManager.kill(session): "if not self.__connect()" never holds (the
\* response is a non-empty list), so a failed connect goes on to
\* self._service.get_job with _service None: AttributeError.
delete_session_kill(t) ==
    /\ thr[t].pc = "delete_kill"
    /\ \E c \in ConnectOutcomes(connected), o \in KillOutcomes :
          /\ connected' = c
          /\ IF ~c \/ o = "raised"
             THEN /\ response' = Response(t, "delete_session", thr[t].sid,
                                          HTTP_500_INTERNAL_SERVER_ERROR, "")
                  /\ Return(t)
             ELSE /\ response' = NoResponse
                  /\ Goto(t, "delete_row", thr[t].sid, thr[t].sess)
    /\ UNCHANGED <<sessions, session_creation, njobs, now, sweep, calls, deleted, fresh, fmtVars, cfgVars, jmVars, probe>>

\* session.delete(); return 200
delete_session_row(t) ==
    /\ thr[t].pc = "delete_row"
    /\ sessions' = DeleteRow(sessions, thr[t].sid)
    /\ deleted' = deleted \cup {thr[t].sid}
    /\ response' = Response(t, "delete_session", thr[t].sid, HTTP_200_OK, "")
    /\ Return(t)
    /\ UNCHANGED <<session_creation, connected, njobs, now, sweep, calls, fresh, fmtVars, cfgVars, jmVars, probe>>

\* ------------------------------------------------------ request_vocabulary
\* What requests.put meets: the renderer answers with some HTTP status (200,
\* 404 and 500 stand for all of them), or no answer comes and requests raises a
\* RequestException.
ProbeAnswers == {"200", "404", "500", "RequestException"}

\* What 'scontrol show job' reports for the session's job at that moment
\* (hostname answers 'FAILED' for FAILED, the batch host for RUNNING and ''
\* for every other state).
JobStates == {"PENDING", "RUNNING", "FAILED", "CANCELLED"}

NoProbe == [sid |-> "", answer |-> "", job_state |-> ""]

\* request_vocabulary: the PUT returns for every HTTP status (r.text is handed
\* back with HTTP_200_OK, the status of the answer is not read).  On a
\* RequestException globalJobManager.hostname is handed the session object:
\* its re.search raises TypeError, which neither 'except AttributeError' nor
\* 'except Session.DoesNotExist' catches, so the lines that call delete_session
\* or return 404 / 503 are not reached.
request_vocabulary(t, s) ==
    /\ ClientStarts(t)
    /\ IF ~Exists(sessions, s)
       THEN /\ response' = Response(t, "request_vocabulary", s, HTTP_404_NOT_FOUND, "")
            /\ probe' = NoProbe
       ELSE \E answer \in ProbeAnswers, job_state \in JobStates :
               /\ probe' = [sid |-> s, answer |-> answer, job_state |-> job_state]
               /\ response' = Response(t, "request_vocabulary", s,
                                       IF answer # "RequestException" THEN HTTP_200_OK
                                       ELSE UncaughtException, "")
    /\ UNCHANGED <<sessions, session_creation, connected, njobs, now, thr, sweep, deleted,
                   fresh, fmtVars, cfgVars, jmVars>>

\* ------------------------------------------------------ JobManager.schedule
\* The caller fetches the session, chooses the renderer's host and port and
\* hands the object to schedule, which starts with __connect.
schedule(t, s, host) ==
    /\ ClientStarts(t)
    /\ IF ~Exists(sessions, s)
       THEN /\ response' = Response(t, "schedule", s, HTTP_404_NOT_FOUND, "")
            /\ UNCHANGED <<thr, connected, fmtVars, cfgVars, jmVars, probe>>
       ELSE \E c \in ConnectOutcomes(connected) :
               /\ connected' = c
               /\ IF c
                  THEN /\ Goto(t, "schedule_submit", s,
                               [sessions[s] EXCEPT
                                   !.http_host = host,
                                   !.http_port = IF host = NoHost THEN NoPort ELSE RendererPort])
                       /\ response' = NoResponse
                  ELSE /\ response' = Response(t, "schedule", s, HTTP_400_BAD_REQUEST, "")
                       /\ UNCHANGED thr
    /\ UNCHANGED <<sessions, session_creation, njobs, now, sweep, deleted, fresh, fmtVars, cfgVars, jmVars, probe>>

\* The guarded section of schedule: create_job, session.job_id, session.status,
\* session.save().
schedule_submit(t) ==
    /\ thr[t].pc = "schedule_submit"
    /\ \E o \in SubmitOutcomes :
          IF o = "submitted" /\ njobs < MaxJobs
          THEN /\ njobs' = njobs + 1
               /\ sessions' = Save(sessions, thr[t].sid,
                                   [thr[t].sess EXCEPT !.job_id = njobs + 1,
                                                       !.status = SESSION_STATUS_SCHEDULED])
               /\ response' = Response(t, "schedule", thr[t].sid, HTTP_200_OK, "")
          ELSE /\ response' = Response(t, "schedule", thr[t].sid,
                                       IF o = "raised" THEN UncaughtException
                                       ELSE HTTP_400_BAD_REQUEST, "")
               /\ UNCHANGED <<sessions, njobs, fmtVars, cfgVars, jmVars, probe>>
    /\ Return(t)
    /\ UNCHANGED <<session_creation, connected, now, sweep, calls, deleted, fresh, fmtVars, cfgVars, jmVars, probe>>

\* ------------------------------------------------------- keep-alive thread
\* One sweep: snapshot now, call delete_session for each session whose
\* valid_until lies before the snapshot, then sleep.
Expired(db, n) == {s \in DOMAIN db : db[s].valid_until < n}

sweep_start ==
    /\ thr[Sweeper].pc = "idle"
    /\ sweep.n < MaxSweeps
    /\ sweep' = [snap |-> now, todo |-> Expired(sessions, now),
                 rows |-> sessions, n |-> sweep.n + 1]
    /\ Goto(Sweeper, "sweep_loop", "", NoSession)
    /\ response' = NoResponse
    /\ UNCHANGED <<sessions, session_creation, connected, njobs, now, calls, deleted, fresh, fmtVars, cfgVars, jmVars, probe>>

sweep_delete(s) ==
    /\ thr[Sweeper].pc = "sweep_loop"
    /\ s \in sweep.todo
    /\ sweep' = [sweep EXCEPT !.todo = @ \ {s}]
    /\ DeleteGet(Sweeper, s)
    /\ UNCHANGED <<sessions, session_creation, connected, njobs, now, calls, deleted, fmtVars, cfgVars, jmVars, probe>>

sweep_end ==
    /\ thr[Sweeper].pc = "sweep_loop"
    /\ sweep.todo = {}
    /\ Goto(Sweeper, "idle", "", NoSession)
    /\ response' = Response(Sweeper, "sweep", "", HTTP_200_OK, "")
    /\ UNCHANGED <<sessions, session_creation, connected, njobs, now, sweep, calls, deleted, fresh, fmtVars, cfgVars, jmVars, probe>>

\* ------------------------------------------------- format_rest_parameters
\* A string is a sequence of symbols.  "${", "}" and the three names are the
\* pieces of the placeholders; "{$" and "x" are other text.
Symbols == {"${", "}", "rest_hostname", "rest_port", "rest_schema", "{$", "x"}
PlaceholderHostname == <<"${", "rest_hostname", "}">>
PlaceholderPort == <<"${", "rest_port", "}">>
PlaceholderSchema == <<"${", "rest_schema", "}">>

\* str(v): an integer prints as its decimal digits, a string is itself
DecimalDigits == <<"0", "1", "2", "3", "4", "5", "6", "7", "8", "9">>

RECURSIVE Decimal(_)
Decimal(n) ==
    IF n < 10 THEN <<DecimalDigits[n + 1]>>
    ELSE Decimal(n \div 10) \o <<DecimalDigits[(n % 10) + 1]>>

Str(v) == IF v.int THEN Decimal(v.n) ELSE v.s
IntValue(n) == [int |-> TRUE, n |-> n, s |-> <<>>]
StrValue(s) == [int |-> FALSE, n |-> 0, s |-> s]

StartsWith(s, prefix) ==
    /\ Len(s) >= Len(prefix)
    /\ SubSeq(s, 1, Len(prefix)) = prefix

Drop(s, n) == SubSeq(s, n + 1, Len(s))

\* str.replace(old, new): every non-overlapping occurrence of old, from the
\* left, becomes new
RECURSIVE StrReplace(_, _, _)
StrReplace(s, old, new) ==
    IF s = <<>> THEN <<>>
    ELSE IF StartsWith(s, old) THEN new \o StrReplace(Drop(s, Len(old)), old, new)
    ELSE <<Head(s)>> \o StrReplace(Tail(s), old, new)

format_rest_parameters(string_format, hostname, port, schema) ==
    StrReplace(
        StrReplace(
            StrReplace(string_format, PlaceholderHostname, Str(hostname)),
            PlaceholderPort, Str(port)),
        PlaceholderSchema, Str(schema))

RECURSIVE SeqsUpTo(_)
SeqsUpTo(n) ==
    IF n = 0 THEN {<<>>}
    ELSE LET shorter == SeqsUpTo(n - 1) IN
         shorter \cup {Append(s, x) : s \in {q \in shorter : Len(q) = n - 1}, x \in Symbols}

Hostnames == {StrValue(<<"x">>), StrValue(<<"rest_port">>), StrValue(PlaceholderPort)}
Ports == {IntValue(RendererPort), StrValue(<<"3", "0", "0", "0">>),
          StrValue(PlaceholderSchema)}
Schemas == {StrValue(<<"x">>)}
NoValue == StrValue(<<>>)
NoFormatCall == [string_format |-> <<>>, hostname |-> NoValue, port |-> NoValue,
                 schema |-> NoValue]
NotCalled == [called |-> FALSE, value |-> <<>>]

Format ==
    /\ ~fmt_out.called
    /\ fmt_out' = [called |-> TRUE,
                   value |-> format_rest_parameters(fmt_in.string_format, fmt_in.hostname,
                                                    fmt_in.port, fmt_in.schema)]
    /\ UNCHANGED <<fmt_in, sessionVars, cfgVars, jmVars, probe>>

\* ------------------------------------------ RenderingResourceSettingsManager
\* Ids of rendering resources, in the ascending order of the table's ordering.
SettingsIds == <<"brayns", "livre", "rtneuron">>
IdRank(id) == CHOOSE i \in 1 .. Len(SettingsIds) : SettingsIds[i] = id

\* The params a client sends: one value for each field of a configuration.
SettingsIdSet == {SettingsIds[i] : i \in 1 .. Len(SettingsIds)}
SettingsParams ==
    [id : SettingsIdSet,
     command_line : {"livre"},
     environment_variables : {"EQ_WINDOW_IATTR_HINT_HEIGHT=512"},
     modules : {"", "BBP/viz/latest"},
     process_rest_parameters_format : {"--rest {$rest_hostname}:${rest_port}"},
     scheduler_rest_parameters_format : {"--rest $SLURMD_NODENAME:${rest_port}"},
     graceful_exit : BOOLEAN,
     wait_until_running : {TRUE}]
NoParams == [id |-> ""]

\* RenderingResourceSettings(id=..., command_line=..., ...): the fields the
\* constructor call does not pass take the model's defaults (modules = '').
NewSettings(params) ==
    [id |-> params.id,
     command_line |-> params.command_line,
     environment_variables |-> params.environment_variables,
     modules |-> "",
     process_rest_parameters_format |-> params.process_rest_parameters_format,
     scheduler_rest_parameters_format |-> params.scheduler_rest_parameters_format,
     graceful_exit |-> params.graceful_exit]

\* update: the five assignments to the object read from the table
UpdatedSettings(row, params) ==
    [row EXCEPT
        !.command_line = params.command_line,
        !.environment_variables = params.environment_variables,
        !.process_rest_parameters_format = params.process_rest_parameters_format,
        !.scheduler_rest_parameters_format = params.scheduler_rest_parameters_format,
        !.graceful_exit = params.graceful_exit]

NoSettings == [id |-> ""]
IdleSettingsThread == [pc |-> "idle", obj |-> NoSettings, params |-> NoParams]
NoSettingsResponse == [t |-> "", op |-> "", id |-> "", code |-> 0, value |-> <<>>]
SettingsResponse(t, op, id, code, value) ==
    [t |-> t, op |-> op, id |-> id, code |-> code, value |-> value]

\* The table: objects.get(id=...), save(force_insert=True), save(), delete()
SettingsExists(tbl, id) == \E i \in 1 .. Len(tbl) : tbl[i].id = id
SettingsGet(tbl, id) == tbl[CHOOSE i \in 1 .. Len(tbl) : tbl[i].id = id]
SettingsInsert(tbl, row) == Append(tbl, row)
SettingsSave(tbl, row) ==
    IF SettingsExists(tbl, row.id)
    THEN [i \in 1 .. Len(tbl) |-> IF tbl[i].id = row.id THEN row ELSE tbl[i]]
    ELSE Append(tbl, row)
SettingsDeleteAll(tbl, id) == <<>>
SettingsDelete(tbl, id) ==
    LET keep(r) == r.id # id IN SelectSeq(tbl, keep)

\* objects.all() under Meta.ordering: the rows by ascending id
RECURSIVE OrderById(_)
Unordered(rows) == rows
OrderById(rows) ==
    IF rows = <<>> THEN <<>>
    ELSE LET m == CHOOSE i \in 1 .. Len(rows) :
                     \A j \in 1 .. Len(rows) : IdRank(rows[i].id) <= IdRank(rows[j].id)
             rest == [i \in 1 .. Len(rows) - 1 |-> IF i < m THEN rows[i] ELSE rows[i + 1]]
         IN <<rows[m]>> \o OrderById(rest)

\* RenderingResourceSettingsSerializer: the fields it renders
SerializerFields ==
    {"id", "command_line", "environment_variables", "process_rest_parameters_format",
     "scheduler_rest_parameters_format", "graceful_exit"}
Serialize(row) == [f \in SerializerFields |-> row[f]]
SerializeMany(rows) == [i \in 1 .. Len(rows) |-> Serialize(rows[i])]

SettingsStarts(t) ==
    /\ cfg_thr[t].pc = "idle"
    /\ cfg_calls < MaxConfigCalls
    /\ cfg_calls' = cfg_calls + 1

\* create: the object is built and INSERTed; IntegrityError gives 409
SettingsIntegrityErrorNever(tbl, id) == FALSE
SettingsIntegrityError(tbl, id) == SettingsExists(tbl, id)

create(t, params) ==
    /\ SettingsStarts(t)
    /\ IF SettingsIntegrityError(settings, params.id)
       THEN /\ cfg_response' = SettingsResponse(t, "create", params.id, HTTP_409_CONFLICT, <<>>)
            /\ UNCHANGED <<settings, cfg_created, cfg_deleted>>
       ELSE /\ settings' = SettingsInsert(settings, NewSettings(params))
            /\ cfg_created' = [cfg_created EXCEPT ![params.id] = params]
            /\ cfg_deleted' = cfg_deleted \ {params.id}
            /\ cfg_response' = SettingsResponse(t, "create", params.id, HTTP_201_CREATED, <<>>)
    /\ UNCHANGED <<cfg_thr, sessionVars, fmtVars, jmVars, probe>>

\* update: RenderingResourceSettings.objects.get, the assignments
update(t, params) ==
    /\ SettingsStarts(t)
    /\ IF SettingsExists(settings, params.id)
       THEN /\ cfg_thr' = [cfg_thr EXCEPT ![t] =
                             [pc |-> "update_save",
                              obj |-> UpdatedSettings(SettingsGet(settings, params.id), params),
                              params |-> params]]
            /\ cfg_response' = NoSettingsResponse
       ELSE /\ cfg_response' = SettingsResponse(t, "update", params.id, HTTP_404_NOT_FOUND, <<>>)
            /\ UNCHANGED cfg_thr
    /\ UNCHANGED <<settings, cfg_created, cfg_deleted, sessionVars, fmtVars, jmVars, probe>>

\* update: settings.save(); return 200
update_save(t) ==
    /\ cfg_thr[t].pc = "update_save"
    /\ settings' = SettingsSave(settings, cfg_thr[t].obj)
    /\ cfg_created' = [cfg_created EXCEPT ![cfg_thr[t].obj.id] = NoParams]
    /\ cfg_response' = SettingsResponse(t, "update", cfg_thr[t].obj.id, HTTP_200_OK, <<>>)
    /\ cfg_thr' = [cfg_thr EXCEPT ![t] = IdleSettingsThread]
    /\ UNCHANGED <<cfg_calls, cfg_deleted, sessionVars, fmtVars, jmVars, probe>>

\* list: objects.all() rendered by the serializer
list(t) ==
    /\ SettingsStarts(t)
    /\ cfg_response' = SettingsResponse(t, "list", "", HTTP_200_OK,
                                        SerializeMany(OrderById(settings)))
    /\ UNCHANGED <<settings, cfg_thr, cfg_created, cfg_deleted, sessionVars, fmtVars, jmVars, probe>>

\* get_by_id: objects.get(id=settings_id); DoesNotExist is not caught
get_by_id(t, id) ==
    /\ SettingsStarts(t)
    /\ cfg_response' =
          IF SettingsExists(settings, id)
          THEN SettingsResponse(t, "get_by_id", id, HTTP_200_OK, SettingsGet(settings, id))
          ELSE SettingsResponse(t, "get_by_id", id, UncaughtException, <<>>)
    /\ UNCHANGED <<settings, cfg_thr, cfg_created, cfg_deleted, sessionVars, fmtVars, jmVars, probe>>

\* delete: RenderingResourceSettings.objects.get
delete(t, id) ==
    /\ SettingsStarts(t)
    /\ IF SettingsExists(settings, id)
       THEN /\ cfg_thr' = [cfg_thr EXCEPT ![t] =
                             [pc |-> "delete_row", obj |-> SettingsGet(settings, id),
                              params |-> NoParams]]
            /\ cfg_response' = NoSettingsResponse
       ELSE /\ cfg_response' = SettingsResponse(t, "delete", id, HTTP_404_NOT_FOUND, <<>>)
            /\ UNCHANGED cfg_thr
    /\ UNCHANGED <<settings, cfg_created, cfg_deleted, sessionVars, fmtVars, jmVars, probe>>

\* delete: settings.delete(); return 200
delete_row(t) ==
    /\ cfg_thr[t].pc = "delete_row"
    /\ settings' = SettingsDelete(settings, cfg_thr[t].obj.id)
    /\ cfg_created' = [cfg_created EXCEPT ![cfg_thr[t].obj.id] = NoParams]
    /\ cfg_deleted' = cfg_deleted \cup {cfg_thr[t].obj.id}
    /\ cfg_response' = SettingsResponse(t, "delete", cfg_thr[t].obj.id, HTTP_200_OK, <<>>)
    /\ cfg_thr' = [cfg_thr EXCEPT ![t] = IdleSettingsThread]
    /\ UNCHANGED <<cfg_calls, sessionVars, fmtVars, jmVars, probe>>

\* clear: objects.all().delete()
clear(t) ==
    /\ SettingsStarts(t)
    /\ settings' = <<>>
    /\ cfg_created' = [id \in DOMAIN cfg_created |-> NoParams]
    /\ cfg_response' = SettingsResponse(t, "clear", "", HTTP_200_OK, <<>>)
    /\ UNCHANGED <<cfg_thr, cfg_deleted, sessionVars, fmtVars, jmVars, probe>>

\* ------------------------------------------------------------- JobManager
\* The methods of globalJobManager as the threads that call them run them.
NoThread == ""
JobManagerMethods == {"schedule", "query", "stop", "kill"}
IdleJobManagerThread == [pc |-> "idle", op |-> ""]
NoJobManagerResponse == [t |-> "", op |-> "", code |-> 0]
JobManagerResponse(t, op, code) == [t |-> t, op |-> op, code |-> code]

\* What each method does on the cluster inside its guarded section: schedule
\* submits (create_job), query asks for the job's state, stop cancels, kill
\* signals SIGKILL.
AdapterOperation(op) ==
    CASE op = "schedule" -> "submit"
      [] op = "query" -> "query"
      [] op = "stop" -> "cancel"
      [] op = "kill" -> "kill"

\* What the guarded section of the running or last stop has sent: the thread,
\* the graceful_exit of the settings row it read, and its requests in order.
NoStop == [t |-> "", graceful_exit |-> FALSE, sent |-> <<>>]

\* threading.Lock: acquire goes through when no thread holds the lock
\* (LockFreeAlways: a lock that never blocks)
LockFreeAlways(m) == TRUE
LockFree(m) == m = NoThread

\* schedule, query, stop, kill: the method is entered; its first statement
\* calls __connect, which waits for the mutex.
JobManager_call(t, op) ==
    /\ jm_thr[t].pc = "idle"
    /\ jm_calls < MaxAdapterCalls
    /\ jm_calls' = jm_calls + 1
    /\ jm_thr' = [jm_thr EXCEPT ![t] = [pc |-> "connect_acquire", op |-> op]]
    /\ jm_response' = NoJobManagerResponse
    /\ UNCHANGED <<mutex, jm_stop, sessionVars, fmtVars, cfgVars, probe>>

\* __connect: self._mutex.acquire()
JobManager_connect_acquire(t) ==
    /\ jm_thr[t].pc = "connect_acquire"
    /\ LockFree(mutex)
    /\ mutex' = t
    /\ jm_thr' = [jm_thr EXCEPT ![t].pc = "connect"]
    /\ UNCHANGED <<jm_calls, jm_response, jm_stop, sessionVars, fmtVars, cfgVars, probe>>

\* __connect's try block catches saga.SagaException only: anything else that
\* saga.job.Service, get_url or the logging raises leaves __connect before its
\* self._mutex.release().
ConnectRaises(isConnected) == IF isConnected THEN {FALSE} ELSE {FALSE, TRUE}

\* __connect: 'if not self._connected'.  Connected: self._mutex.release() and
\* the caller goes on to its guarded section; not connected: the thread goes on
\* to create the service, still holding the mutex.
JobManager_connect(t) ==
    /\ jm_thr[t].pc = "connect"
    /\ IF connected
       THEN /\ jm_thr' = [jm_thr EXCEPT ![t].pc = "acquire"]
            /\ mutex' = NoThread
       ELSE /\ jm_thr' = [jm_thr EXCEPT ![t].pc = "connect_service"]
            /\ UNCHANGED mutex
    /\ UNCHANGED <<jm_calls, jm_response, jm_stop, sessionVars, fmtVars, cfgVars, probe>>

\* __connect: saga.job.Service(...), self._connected = True,
\* self._mutex.release(), and the caller's test of the status: schedule, query
\* and stop return the 400; kill tests 'not self.__connect()', which a list
\* never satisfies, and goes on.
JobManager_connect_service(t) ==
    /\ jm_thr[t].pc = "connect_service"
    /\ \E raised \in ConnectRaises(FALSE) :
          IF raised
          THEN /\ jm_thr' = [jm_thr EXCEPT ![t] = IdleJobManagerThread]
               /\ jm_response' = JobManagerResponse(t, jm_thr[t].op, UncaughtException)
               /\ UNCHANGED <<mutex, connected>>
          ELSE /\ \E c \in ConnectOutcomes(FALSE) :
                     /\ connected' = c
                     /\ IF c \/ jm_thr[t].op = "kill"
                        THEN /\ jm_thr' = [jm_thr EXCEPT ![t].pc = "acquire"]
                             /\ UNCHANGED jm_response
                        ELSE /\ jm_thr' = [jm_thr EXCEPT ![t] = IdleJobManagerThread]
                             /\ jm_response' =
                                    JobManagerResponse(t, jm_thr[t].op, HTTP_400_BAD_REQUEST)
               /\ mutex' = NoThread
    /\ UNCHANGED <<jm_calls, jm_stop, sessions, session_creation, njobs, now, thr, sweep, calls,
                   response, deleted, fresh, fmtVars, cfgVars, probe>>

\* schedule, query, stop, kill: self._mutex.acquire() of the guarded section.
\* stop has get_job, the settings row and the EXIT request before its cancel.
JobManager_acquire(t) ==
    /\ jm_thr[t].pc = "acquire"
    /\ LockFree(mutex)
    /\ mutex' = t
    /\ jm_thr' = [jm_thr EXCEPT ![t].pc = IF jm_thr[t].op = "stop" THEN "stop_exit"
                                          ELSE AdapterOperation(jm_thr[t].op)]
    /\ jm_stop' = IF jm_thr[t].op = "stop" THEN [NoStop EXCEPT !.t = t] ELSE jm_stop
    /\ UNCHANGED <<jm_calls, jm_response, sessionVars, fmtVars, cfgVars, probe>>

\* What stop meets between its acquire and its cancel.  get_job: the job is
\* found, or saga raises DoesNotExist (stop answers 200) or NoSuccess (400).
\* RenderingResourceSettings.objects.get(id=session.renderer_id): the row, or
\* an exception stop does not catch (the row is gone; Session has no
\* renderer_id).  urlopen(...).read() of the EXIT request: an answer, an
\* HTTPError or URLError (both caught and logged), or an error of the
\* connection that is neither (httplib.BadStatusLine when the renderer closes
\* without answering, socket.error or socket.timeout while reading).
GetJobOutcomes == {"job", "DoesNotExist", "NoSuccess"}
SettingsOutcomes == {"row", "raised"}
ExitOutcomes == {"answered", "HTTPError", "URLError", "connection_error"}

\* stop: get_job, the settings row, 'if setting.graceful_exit' and the EXIT
\* request; the 'finally: self._mutex.release()' where the section ends here.
JobManager_stop_exit(t) ==
    /\ jm_thr[t].pc = "stop_exit"
    /\ \E j \in GetJobOutcomes, g \in SettingsOutcomes, graceful_exit \in BOOLEAN,
          e \in ExitOutcomes :
          IF j # "job"
          THEN /\ jm_response' = JobManagerResponse(t, "stop",
                                     IF j = "DoesNotExist" THEN HTTP_200_OK
                                     ELSE HTTP_400_BAD_REQUEST)
               /\ jm_thr' = [jm_thr EXCEPT ![t] = IdleJobManagerThread]
               /\ mutex' = NoThread
               /\ UNCHANGED jm_stop
          ELSE IF g = "raised"
          THEN /\ jm_response' = JobManagerResponse(t, "stop", UncaughtException)
               /\ jm_thr' = [jm_thr EXCEPT ![t] = IdleJobManagerThread]
               /\ mutex' = NoThread
               /\ UNCHANGED jm_stop
          ELSE IF graceful_exit /\ e = "connection_error"
          THEN /\ jm_response' = JobManagerResponse(t, "stop", UncaughtException)
               /\ jm_thr' = [jm_thr EXCEPT ![t] = IdleJobManagerThread]
               /\ mutex' = NoThread
               /\ jm_stop' = [t |-> t, graceful_exit |-> TRUE, sent |-> <<"EXIT">>]
          ELSE /\ jm_thr' = [jm_thr EXCEPT ![t].pc = "cancel"]
               /\ jm_stop' = [t |-> t, graceful_exit |-> graceful_exit,
                              sent |-> IF graceful_exit THEN <<"EXIT">> ELSE <<>>]
               /\ UNCHANGED <<mutex, jm_response>>
    /\ UNCHANGED <<jm_calls, sessionVars, fmtVars, cfgVars, probe>>

\* The guarded section and its 'finally: self._mutex.release()': the method
\* returns 200 or 400, or an exception leaves it (kill without a connection
\* reads self._service, which is None).  For stop this is job.cancel.
JobManager_release(t) ==
    /\ jm_thr[t].pc \in {AdapterOperation(op) : op \in JobManagerMethods}
    /\ mutex' = NoThread
    /\ \E code \in IF connected THEN {HTTP_200_OK, HTTP_400_BAD_REQUEST, UncaughtException}
                               ELSE {UncaughtException} :
          jm_response' = JobManagerResponse(t, jm_thr[t].op, code)
    /\ jm_stop' = IF jm_thr[t].op = "stop"
                  THEN [jm_stop EXCEPT !.sent = Append(jm_stop.sent, "cancel")]
                  ELSE jm_stop
    /\ jm_thr' = [jm_thr EXCEPT ![t] = IdleJobManagerThread]
    /\ UNCHANGED <<jm_calls, sessionVars, fmtVars, cfgVars, probe>>

\* What hostname is handed: the session object (request_vocabulary) or the
\* job id its signature names.
HostnameArguments == {"session", "job_id"}

\* hostname, a staticmethod: re.search on its argument raises TypeError for a
\* session object; for a job id the method goes on to run scontrol over ssh.
JobManager_hostname(t, arg) ==
    /\ jm_thr[t].pc = "idle"
    /\ jm_calls < MaxAdapterCalls
    /\ jm_calls' = jm_calls + 1
    /\ IF arg = "session"
       THEN /\ jm_response' = JobManagerResponse(t, "hostname", UncaughtException)
            /\ UNCHANGED jm_thr
       ELSE /\ jm_thr' = [jm_thr EXCEPT ![t] = [pc |-> "hostname", op |-> "hostname"]]
            /\ jm_response' = NoJobManagerResponse
    /\ UNCHANGED <<mutex, jm_stop, sessionVars, fmtVars, cfgVars, probe>>

\* hostname: check_output returned; the state and the batch host are parsed
JobManager_hostname_return(t) ==
    /\ jm_thr[t].pc = "hostname"
    /\ jm_thr' = [jm_thr EXCEPT ![t] = IdleJobManagerThread]
    /\ jm_response' = JobManagerResponse(t, "hostname", HTTP_200_OK)
    /\ UNCHANGED <<mutex, jm_calls, jm_stop, sessionVars, fmtVars, cfgVars, probe>>

\* ------------------------------------------------------------------ clock
Tick ==
    /\ now < MaxTime
    /\ now' = now + 1
    /\ response' = NoResponse
    /\ UNCHANGED <<sessions, session_creation, connected, njobs, thr, sweep, calls, deleted, fresh, fmtVars, cfgVars, jmVars, probe>>

\* ------------------------------------------------------------------- spec
InitSessions ==
    /\ sessions = <<>>
    /\ session_creation = TRUE
    /\ connected = FALSE
    /\ njobs = 0
    /\ now = 0
    /\ thr = [t \in Threads |-> IdleThread]
    /\ sweep = NoSweep
    /\ calls = 0
    /\ response = NoResponse
    /\ deleted = {}
    /\ fresh = {}

InitSettings ==
    /\ settings = <<>>
    /\ cfg_thr = [t \in Clients |-> IdleSettingsThread]
    /\ cfg_calls = 0
    /\ cfg_response = NoSettingsResponse
    /\ cfg_created = [id \in SettingsIdSet |-> NoParams]
    /\ cfg_deleted = {}

InitJobManager ==
    /\ mutex = NoThread
    /\ jm_thr = [t \in Clients |-> IdleJobManagerThread]
    /\ jm_calls = 0
    /\ jm_response = NoJobManagerResponse
    /\ jm_stop = NoStop
    /\ probe = NoProbe

Init ==
    /\ InitSessions
    /\ InitSettings
    /\ InitJobManager
    /\ fmt_in = NoFormatCall
    /\ fmt_out = NotCalled

\* format_rest_parameters on every format of up to MaxFmtLen symbols
InitFormat ==
    /\ InitSessions
    /\ InitSettings
    /\ InitJobManager
    /\ fmt_in \in [string_format : SeqsUpTo(MaxFmtLen), hostname : Hostnames,
                   port : Ports, schema : Schemas]
    /\ fmt_out = NotCalled

\* The REST surface: every request a client can make, and the clock.
Next ==
    \/ \E t \in Clients, s \in SessionIds, c \in ConfigurationIds : create_session(t, s, c)
    \/ \E t \in Clients : create_session_save(t)
    \/ \E t \in Clients : suspend_sessions(t)
    \/ \E t \in Clients : resume_sessions(t)
    \/ \E t \in Clients, s \in SessionIds : keep_alive_session(t, s)
    \/ \E t \in Clients : keep_alive_session_save(t)
    \/ \E t \in Clients, s \in SessionIds : query_status(t, s)
    \/ \E t \in Clients : query_status_save(t)
    \/ \E t \in Clients : query_status_delete(t)
    \/ \E t \in Clients : query_status_resave(t)
    \/ \E t \in Clients, s \in SessionIds : delete_session(t, s)
    \/ \E t \in Clients : delete_session_save(t)
    \/ \E t \in Clients : delete_session_stop(t)
    \/ \E t \in Clients : delete_session_kill(t)
    \/ \E t \in Clients : delete_session_row(t)
    \/ \E t \in Clients, s \in SessionIds, h \in {NoHost, RendererHost} : schedule(t, s, h)
    \/ \E t \in Clients : schedule_submit(t)
    \/ Tick

Spec == Init /\ [][Next]_vars

\* The keep-alive thread beside one client that creates, schedules and keeps
\* alive.
NextSweeper ==
    \/ \E s \in SessionIds, c \in ConfigurationIds : create_session("c1", s, c)
    \/ create_session_save("c1")
    \/ \E s \in SessionIds : keep_alive_session("c1", s)
    \/ keep_alive_session_save("c1")
    \/ \E s \in SessionIds : schedule("c1", s, RendererHost)
    \/ schedule_submit("c1")
    \/ sweep_start
    \/ \E s \in SessionIds : sweep_delete(s)
    \/ delete_session_save(Sweeper)
    \/ delete_session_stop(Sweeper)
    \/ delete_session_kill(Sweeper)
    \/ delete_session_row(Sweeper)
    \/ sweep_end
    \/ Tick

SpecSweeper == Init /\ [][NextSweeper]_vars

NextFormat == Format

SpecFormat == InitFormat /\ [][NextFormat]_vars

\* The settings requests of two clients.
NextConfig ==
    \/ \E t \in Clients, params \in SettingsParams : create(t, params)
    \/ \E t \in Clients, params \in SettingsParams : update(t, params)
    \/ \E t \in Clients : update_save(t)
    \/ \E t \in Clients : list(t)
    \/ \E t \in Clients, id \in SettingsIdSet : get_by_id(t, id)
    \/ \E t \in Clients, id \in SettingsIdSet : delete(t, id)
    \/ \E t \in Clients : delete_row(t)
    \/ \E t \in Clients : clear(t)

SpecConfig == Init /\ [][NextConfig]_vars

\* The threads that call the methods of globalJobManager.
NextJobManager ==
    \/ \E t \in Clients, op \in JobManagerMethods : JobManager_call(t, op)
    \/ \E t \in Clients : JobManager_connect_acquire(t)
    \/ \E t \in Clients : JobManager_connect(t)
    \/ \E t \in Clients : JobManager_connect_service(t)
    \/ \E t \in Clients : JobManager_acquire(t)
    \/ \E t \in Clients : JobManager_stop_exit(t)
    \/ \E t \in Clients : JobManager_release(t)
    \/ \E t \in Clients, arg \in HostnameArguments : JobManager_hostname(t, arg)
    \/ \E t \in Clients : JobManager_hostname_return(t)

SpecJobManager == Init /\ [][NextJobManager]_vars

\* The same threads under fair scheduling: a thread that can take a step of
\* its method takes it, and a thread that waits for the mutex gets it if the
\* mutex is free again and again.
SpecJobManagerFair ==
    /\ SpecJobManager
    /\ \A t \in Clients :
          /\ SF_vars(JobManager_connect_acquire(t))
          /\ SF_vars(JobManager_acquire(t))
          /\ WF_vars(JobManager_connect(t))
          /\ WF_vars(JobManager_connect_service(t))
          /\ WF_vars(JobManager_stop_exit(t))
          /\ WF_vars(JobManager_release(t))
          /\ WF_vars(JobManager_hostname_return(t))

\* One client that creates sessions beside one that creates and removes
\* configurations.
NextReference ==
    \/ \E s \in SessionIds, c \in ConfigurationIds : create_session("c1", s, c)
    \/ create_session_save("c1")
    \/ \E params \in SettingsParams : create("c2", params)
    \/ \E id \in SettingsIdSet : delete("c2", id)
    \/ delete_row("c2")
    \/ clear("c2")

SpecReference == Init /\ [][NextReference]_vars

\* The params of the configurations a session refers to, with
\* wait_until_running off as well as on.
WaitParams ==
    {[p EXCEPT !.wait_until_running = w] :
        p \in {q \in SettingsParams : q.id \in ConfigurationIds /\ q.modules = ""},
        w \in BOOLEAN}

\* One client that takes a session to STARTING and probes it, beside one that
\* creates the session's configuration.
NextProbe ==
    \/ \E s \in SessionIds, c \in ConfigurationIds : create_session("c1", s, c)
    \/ create_session_save("c1")
    \/ \E s \in SessionIds, host \in {NoHost, RendererHost} : schedule("c1", s, host)
    \/ schedule_submit("c1")
    \/ \E s \in SessionIds : query_status("c1", s)
    \/ query_status_save("c1")
    \/ \E s \in SessionIds : request_vocabulary("c1", s)
    \/ \E params \in WaitParams : create("c2", params)

SpecProbe == Init /\ [][NextProbe]_vars

\* A client that goes on polling: the count of its requests stays capped, the
\* oldest one is no longer counted.
PollAgain ==
    /\ calls = MaxCalls
    /\ calls' = MaxCalls - 1
    /\ UNCHANGED <<sessions, session_creation, connected, njobs, now, thr, sweep, response,
                   deleted, fresh, fmtVars, cfgVars, jmVars, probe>>

NextProbePoll ==
    \/ \E s \in SessionIds, c \in ConfigurationIds : create_session("c1", s, c)
    \/ create_session_save("c1")
    \/ \E s \in SessionIds, host \in {NoHost, RendererHost} : schedule("c1", s, host)
    \/ schedule_submit("c1")
    \/ \E s \in SessionIds : query_status("c1", s)
    \/ query_status_save("c1")
    \/ PollAgain

\* The server serves every request it has begun, and the client calls
\* query_status for each session again and again.
SpecProbeFair ==
    /\ Init /\ [][NextProbePoll]_vars
    /\ WF_vars(NextProbePoll)
    /\ WF_vars(query_status_save("c1"))
    /\ \A s \in SessionIds : SF_vars(query_status("c1", s))

\* ================================================================ claims
\* The position of a status on the way SCHEDULING -> SCHEDULED ->
\* GETTING_HOSTNAME -> STARTING -> RUNNING <-> BUSY; STOPPING, STOPPED and FAILED
\* come after all of them.
StatusRank(status) ==
    CASE status = SESSION_STATUS_SCHEDULING -> 1
      [] status = SESSION_STATUS_SCHEDULED -> 2
      [] status = SESSION_STATUS_GETTING_HOSTNAME -> 3
      [] status = SESSION_STATUS_STARTING -> 4
      [] status \in {SESSION_STATUS_RUNNING, SESSION_STATUS_BUSY} -> 5
      [] status \in {SESSION_STATUS_STOPPING, SESSION_STATUS_FAILED} -> 6
      [] status = SESSION_STATUS_STOPPED -> 7

\* Thread t takes the step that leaves position pc.
Leaves(t, pc) == thr[t].pc = pc /\ thr'[t] # thr[t]

\* C1: for every session the persisted status never moves backward on the
\* graph SCHEDULING -> SCHEDULED -> GETTING_HOSTNAME -> STARTING -> RUNNING <->
\* BUSY, any -> STOPPING -> STOPPED, any -> FAILED (RUNNING <-> BUSY apart), under
\* any interleaving of create_session, schedule, query_status,
\* keep_alive_session and delete_session.
C1_NoBackwardTransition ==
    [][\A s \in SessionIds :
          (s \in DOMAIN sessions /\ s \in DOMAIN sessions')
          => StatusRank(sessions'[s].status) >= StatusRank(sessions[s].status)]_vars

\* C2: once delete_session(id) has returned 200 and until a create_session(id)
\* returns 201, no row with that id is stored, so that every query_status(id)
\* answers 404.
C2_DeletedStaysGone ==
    \A s \in deleted : s \notin DOMAIN sessions

\* C3: a create_session call made while session creation is suspended (after
\* suspend_sessions returned and before resume_sessions) returns 403 and inserts
\* nothing; only suspend_sessions and resume_sessions change the flag, suspend
\* leaves it off and resume leaves it on; a create_session call made while it
\* is on is not refused and, its id being fresh when it inserts, returns 201
\* with the row stored.
C3_SuspendedCreateForbidden ==
    [][/\ \A t \in Clients :
             /\ (thr[t].pc = "idle" /\ thr'[t].pc = "create_save") => session_creation
             /\ (Leaves(t, "create_save") /\ thr[t].sid \notin DOMAIN sessions)
                => (response'.code = HTTP_201_CREATED /\ thr[t].sid \in DOMAIN sessions')
       /\ (response'.op = "create_session" /\ response'.code = HTTP_403_FORBIDDEN)
          => (~session_creation /\ sessions' = sessions /\ thr' = thr)
       /\ (response'.op = "create_session" /\ response'.code # HTTP_403_FORBIDDEN)
          => thr[response'.t].pc = "create_save"
       /\ response'.op = "suspend_sessions" => ~session_creation'
       /\ response'.op = "resume_sessions" => session_creation'
       /\ session_creation' # session_creation
          => response'.op \in {"suspend_sessions", "resume_sessions"}]_vars

\* C3 witness: a create_session call has just been refused with 403 while
\* creation is suspended.
C3_Witness ==
    /\ response.op = "create_session"
    /\ response.code = HTTP_403_FORBIDDEN
    /\ ~session_creation

\* C4 as claimed: every keep_alive_session on a stored session leaves its
\* valid_until strictly greater than it was.
C4_StrictlyGreater ==
    [][\A t \in Clients :
          (Leaves(t, "keep_alive_save") /\ thr[t].sid \in DOMAIN sessions)
          => sessions'[thr[t].sid].valid_until > sessions[thr[t].sid].valid_until]_vars

\* C4 amended: keep_alive_session on a stored session sets valid_until to the
\* clock it reads plus the keep-alive timeout, which is never less than the
\* value it read from the row, and stores exactly that; on a session that is
\* not stored it returns 404 and changes nothing.
C4_NeverLess ==
    [][/\ \A t \in Clients :
             /\ (thr[t].pc = "idle" /\ thr'[t].pc = "keep_alive_save")
                => /\ thr'[t].sid \in DOMAIN sessions
                   /\ thr'[t].sess.valid_until = now + KeepAliveTimeout
                   /\ thr'[t].sess.valid_until >= sessions[thr'[t].sid].valid_until
             /\ Leaves(t, "keep_alive_save")
                => /\ sessions'[thr[t].sid].valid_until = thr[t].sess.valid_until
                   /\ response'.code = HTTP_200_OK
       /\ (response'.op = "keep_alive_session" /\ response'.code = HTTP_404_NOT_FOUND)
          => (response'.sid \notin DOMAIN sessions /\ sessions' = sessions)]_vars

\* C4 witness: a keep_alive_session has just stored a valid_until later than
\* any that create_session could have given the row at time 0.
C4_Witness ==
    /\ response.op = "keep_alive_session"
    /\ response.code = HTTP_200_OK
    /\ response.sid \in DOMAIN sessions
    /\ sessions[response.sid].valid_until > KeepAliveTimeout
\* Session s was stored with valid_until < now when the current sweep began.
ExpiredAtSweepStart(s) ==
    /\ s \in DOMAIN sweep.rows
    /\ sweep.rows[s].valid_until < sweep.snap

\* The keep-alive thread takes a step that removes the row of s.
SweeperRemoves(s) ==
    /\ thr'[Sweeper] # thr[Sweeper]
    /\ s \in DOMAIN sessions
    /\ s \notin DOMAIN sessions'

C6_ExpiredGoneAfterSweep ==
    response.op = "sweep"
    => \A s \in DOMAIN sessions :
          ~(/\ ExpiredAtSweepStart(s)
            /\ sessions[s].valid_until < sweep.snap
            /\ sessions[s].status = SESSION_STATUS_STOPPING)

\* What a single pass over the format gives: each placeholder found in the
\* format is replaced, text put in by a replacement is not looked at again.
RECURSIVE SinglePass(_, _, _, _)
SinglePass(s, hostname, port, schema) ==
    IF s = <<>> THEN <<>>
    ELSE IF StartsWith(s, PlaceholderHostname)
         THEN hostname \o SinglePass(Drop(s, Len(PlaceholderHostname)), hostname, port, schema)
    ELSE IF StartsWith(s, PlaceholderPort)
         THEN port \o SinglePass(Drop(s, Len(PlaceholderPort)), hostname, port, schema)
    ELSE IF StartsWith(s, PlaceholderSchema)
         THEN schema \o SinglePass(Drop(s, Len(PlaceholderSchema)), hostname, port, schema)
    ELSE <<Head(s)>> \o SinglePass(Tail(s), hostname, port, schema)

Contains(s, part) == \E i \in 0 .. Len(s) : StartsWith(Drop(s, i), part)
ContainsPlaceholder(s) ==
    \E ph \in {PlaceholderHostname, PlaceholderPort, PlaceholderSchema} : Contains(s, ph)

ExpectedFormat ==
    SinglePass(fmt_in.string_format, Str(fmt_in.hostname), Str(fmt_in.port),
               Str(fmt_in.schema))

\* C7: when the hostname or the port contains a placeholder, the result is that
\* of a single pass: the placeholder text put in by the replacement stays as it
\* is.
C7_SinglePass ==
    (/\ fmt_out.called
     /\ ContainsPlaceholder(Str(fmt_in.hostname)) \/ ContainsPlaceholder(Str(fmt_in.port)))
    => fmt_out.value = ExpectedFormat

\* C8: when no replacement value contains a placeholder, the result is the
\* format with every placeholder replaced by its value and every other symbol
\* unchanged.
C8_EveryPlaceholderReplaced ==
    (/\ fmt_out.called
     /\ ~ContainsPlaceholder(Str(fmt_in.hostname))
     /\ ~ContainsPlaceholder(Str(fmt_in.port))
     /\ ~ContainsPlaceholder(Str(fmt_in.schema)))
    => fmt_out.value = ExpectedFormat

\* C9 as claimed: every create_session answered while a row with its id is
\* stored is answered 409, and leaves the table as it was.
C9_StoredIdConflict ==
    [][(response'.op = "create_session" /\ response'.sid \in DOMAIN sessions)
       => (response'.code = HTTP_409_CONFLICT /\ sessions' = sessions)]_vars

\* C9 amended: create_session called while session creation is enabled, whose
\* insert finds a row with its id stored, returns 409 and leaves the table, the
\* stored row included, as it was.
C9_DuplicateConflict ==
    [][\A t \in Clients :
          (Leaves(t, "create_save") /\ thr[t].sid \in DOMAIN sessions)
          => /\ response' = Response(t, "create_session", thr[t].sid, HTTP_409_CONFLICT, "")
             /\ sessions' = sessions]_vars

\* C9 witness: a create_session by another owner has just been answered 409
\* for a session that is already past SCHEDULING.
C9_Witness ==
    /\ response.op = "create_session"
    /\ response.code = HTTP_409_CONFLICT
    /\ response.sid \in DOMAIN sessions
    /\ sessions[response.sid].owner # OwnerOf[response.t]
    /\ sessions[response.sid].status # SESSION_STATUS_SCHEDULING

\* C10: a session whose create_session returned 201, and on which no
\* delete_session has run since, is stored: query_status finds its row.
C10_CreatedStaysStored ==
    \A s \in fresh : s \in DOMAIN sessions
\* C11: a query_status call never takes a session from SCHEDULED past
\* GETTING_HOSTNAME: no step persists STARTING or RUNNING for a session whose
\* persisted status is SCHEDULED.
C11_NoSkippedStage ==
    [][\A s \in SessionIds :
          (/\ s \in DOMAIN sessions
           /\ s \in DOMAIN sessions'
           /\ sessions[s].status = SESSION_STATUS_SCHEDULED)
          => sessions'[s].status \notin {SESSION_STATUS_STARTING, SESSION_STATUS_RUNNING}]_vars

\* C12: a query_status call that read the status before another query_status
\* advanced the session does not write its destination over the advanced
\* status: no query_status writes STARTING over a row that is already in
\* STARTING, RUNNING or BUSY.
C12_NoLateWrite ==
    [][\A t \in Clients :
          (Leaves(t, "query_save") /\ thr[t].sid \in DOMAIN sessions)
          => sessions[thr[t].sid].status
                \notin {SESSION_STATUS_STARTING, SESSION_STATUS_RUNNING,
                        SESSION_STATUS_BUSY}]_vars

\* C13: a delete_session that found the row ends by answering 200 with the row
\* removed, whatever the adapter's stop and kill did.
C13_DeleteAlwaysRemoves ==
    [][(/\ response'.op = "delete_session"
        /\ thr[response'.t].pc \in {"delete_save", "delete_stop", "delete_kill", "delete_row"})
       => /\ response'.code = HTTP_200_OK
          /\ response'.sid \notin DOMAIN sessions']_vars

\* C14: keep_alive_session changes valid_until only: the object it builds is
\* the row it read with a new valid_until, and when the row is still as it was
\* read, its save changes the valid_until of that row and nothing else in the
\* table.
C14_OnlyValidUntil ==
    [][\A t \in Clients :
          /\ (thr[t].pc = "idle" /\ thr'[t].pc = "keep_alive_save")
             => /\ thr'[t].sess = [sessions[thr'[t].sid] EXCEPT
                                      !.valid_until = thr'[t].sess.valid_until]
                /\ sessions' = sessions
          /\ (/\ Leaves(t, "keep_alive_save")
              /\ thr[t].sid \in DOMAIN sessions
              /\ thr[t].sess = [sessions[thr[t].sid] EXCEPT
                                   !.valid_until = thr[t].sess.valid_until])
             => sessions' = [sessions EXCEPT
                                ![thr[t].sid].valid_until = thr[t].sess.valid_until]]_vars

\* C14 witness: keep_alive_session has just answered 200 for a session that
\* has a job and is in STARTING.
C14_Witness ==
    /\ response.op = "keep_alive_session"
    /\ response.code = HTTP_200_OK
    /\ response.sid \in DOMAIN sessions
    /\ sessions[response.sid].status = SESSION_STATUS_STARTING
    /\ sessions[response.sid].job_id # NoJob
    /\ sessions[response.sid].valid_until = now + KeepAliveTimeout

\* A step that answers a settings request of operation op about id.
SettingsAnswer(op, id) ==
    /\ cfg_calls' # cfg_calls \/ cfg_response' # cfg_response
    /\ cfg_response'.op = op
    /\ cfg_response'.id = id

\* The fields create and update take from the params.
StoresParams(row, params) ==
    /\ row.command_line = params.command_line
    /\ row.environment_variables = params.environment_variables
    /\ row.process_rest_parameters_format = params.process_rest_parameters_format
    /\ row.scheduler_rest_parameters_format = params.scheduler_rest_parameters_format
    /\ row.graceful_exit = params.graceful_exit

\* C15: create with an id that is stored answers 409 CONFLICT and leaves the
\* table as it is; create with an id that is not stored answers 201 CREATED and
\* adds one row under that id holding the values passed, every other row
\* unchanged.
C15_ConflictOrCreated ==
    [][\A id \in SettingsIdSet :
          SettingsAnswer("create", id) =>
              IF SettingsExists(settings, id)
              THEN /\ cfg_response'.code = HTTP_409_CONFLICT
                   /\ settings' = settings
              ELSE /\ cfg_response'.code = HTTP_201_CREATED
                   /\ Len(settings') = Len(settings) + 1
                   /\ SubSeq(settings', 1, Len(settings)) = settings
                   /\ settings'[Len(settings')].id = id
                   /\ StoresParams(settings'[Len(settings')], cfg_created'[id])]_vars

\* A duplicate create was refused while the row of the first create, with
\* other values, is still the stored one.
C15_Witness ==
    /\ cfg_response.op = "create"
    /\ cfg_response.code = HTTP_409_CONFLICT
    /\ SettingsExists(settings, cfg_response.id)
    /\ cfg_created[cfg_response.id] # NoParams
    /\ StoresParams(SettingsGet(settings, cfg_response.id), cfg_created[cfg_response.id])
    /\ Len(settings) = 2

\* C16: get_by_id of a configuration made by create, and not updated or deleted
\* since, returns a configuration equal to the created one in every field (id,
\* command_line, environment_variables, modules, the two formats,
\* graceful_exit, wait_until_running).
C16_RoundTrip ==
    [][\A id \in SettingsIdSet :
          (/\ SettingsAnswer("get_by_id", id)
           /\ cfg_response'.code = HTTP_200_OK
           /\ cfg_created[id] # NoParams)
          => \A f \in DOMAIN cfg_created[id] :
                /\ f \in DOMAIN cfg_response'.value
                /\ cfg_response'.value[f] = cfg_created[id][f]]_vars

\* The table without the rows of id, the others in their order.
Without(tbl, id) ==
    LET other(r) == r.id # id IN SelectSeq(tbl, other)

\* C17: delete of an id that is stored goes on to remove the row, answers 200
\* OK and removes exactly the row of that id; delete of an id that is not
\* stored answers 404 NOT_FOUND and leaves the table as it is.
C17_DeleteExactlyThatRow ==
    [][/\ \A id \in SettingsIdSet :
             SettingsAnswer("delete", id) =>
                 \/ /\ cfg_response'.code = HTTP_404_NOT_FOUND
                    /\ ~SettingsExists(settings, id)
                    /\ settings' = settings
                 \/ /\ cfg_response'.code = HTTP_200_OK
                    /\ cfg_thr[cfg_response'.t].pc = "delete_row"
                    /\ cfg_thr[cfg_response'.t].obj.id = id
                    /\ ~SettingsExists(settings', id)
                    /\ settings' = Without(settings, id)
       /\ \A t \in Clients :
             (cfg_thr[t].pc = "idle" /\ cfg_thr'[t].pc = "delete_row") =>
                 /\ SettingsExists(settings, cfg_thr'[t].obj.id)
                 /\ settings' = settings]_vars

\* delete; delete: the second delete of an id was answered 404 while another
\* configuration is still stored.
C17_Witness ==
    /\ cfg_response.op = "delete"
    /\ cfg_response.code = HTTP_404_NOT_FOUND
    /\ cfg_response.id \in cfg_deleted
    /\ Len(settings) = 1

\* C18: list returns the stored configurations and nothing else, each one
\* once, in ascending order of id, whatever creates, updates and deletes came
\* before.
C18_ListStoredAscending ==
    [][SettingsAnswer("list", "") =>
          LET v == cfg_response'.value IN
          /\ cfg_response'.code = HTTP_200_OK
          /\ Len(v) = Len(settings)
          /\ \A i, j \in 1 .. Len(v) : i < j => IdRank(v[i].id) < IdRank(v[j].id)
          /\ \A i \in 1 .. Len(settings) :
                \E j \in 1 .. Len(v) : v[j] = Serialize(settings[i])]_vars

\* list answered with two configurations that were created in descending
\* order of id.
C18_Witness ==
    /\ cfg_response.op = "list"
    /\ Len(cfg_response.value) = 2
    /\ Len(settings) = 2
    /\ IdRank(settings[1].id) > IdRank(settings[2].id)
    /\ cfg_response.value[1].id = settings[2].id

\* C19: update of a stored id answers 200 OK and leaves every field of the
\* stored configuration other than id equal to the one passed (modules and
\* wait_until_running included); update of an id that is not stored answers 404
\* NOT_FOUND and creates no row.
C19_UpdateEveryField ==
    [][\A id \in SettingsIdSet :
          SettingsAnswer("update", id) =>
              IF cfg_response'.code = HTTP_200_OK
              THEN LET p == cfg_thr[cfg_response'.t].params
                       r == SettingsGet(settings', id)
                   IN \A f \in DOMAIN p \ {"id"} : f \in DOMAIN r /\ r[f] = p[f]
              ELSE /\ cfg_response'.code = HTTP_404_NOT_FOUND
                   /\ ~SettingsExists(settings, id)
                   /\ settings' = settings]_vars

\* The same, for the fields RenderingResourceSettings declares: the field
\* modules of the stored row equals the one passed to update.
C19_UpdateModules ==
    [][\A id \in SettingsIdSet :
          (SettingsAnswer("update", id) /\ cfg_response'.code = HTTP_200_OK)
          => SettingsGet(settings', id).modules = cfg_thr[cfg_response'.t].params.modules]_vars

\* An update that read its row before a delete removed it stores no row.
C19_UpdateCreatesNoRow ==
    [][\A id \in SettingsIdSet :
          SettingsAnswer("update", id) => (SettingsExists(settings', id) => SettingsExists(settings, id))]_vars

\* The positions at which a thread is performing an operation on the cluster.
AdapterOperations ==
    {"connect", "connect_service", "submit", "query", "cancel", "kill", "hostname"}

\* C20: a thread performs a scheduler adapter operation (connect, submit,
\* query, cancel, kill, hostname) only while it holds the JobManager mutex, so
\* at most one thread performs one at a time.
C20_OperationsUnderMutex ==
    \A t \in Clients : jm_thr[t].pc \in AdapterOperations => mutex = t

\* The same for the operations that go through saga (all but hostname).
C20_SagaOperationsUnderMutex ==
    \A t \in Clients : jm_thr[t].pc \in AdapterOperations \ {"hostname"} => mutex = t

\* C21: a thread that is in no JobManager method (its call returned or raised)
\* does not hold the mutex.
C21_MutexReleasedOnExit ==
    \A t \in Clients : jm_thr[t].pc = "idle" => mutex # t

\* The same for every exit but the one where __connect's connection attempt
\* raised something other than a SagaException: a method that ends with a
\* status, or with an exception raised inside a guarded section of schedule,
\* query, stop or kill, leaves the mutex free.
C21_ReleasedAfterGuardedSection ==
    [][\A t \in Clients :
          (jm_thr[t].pc \in {"submit", "query", "stop_exit", "cancel", "kill"}
           /\ jm_thr'[t].pc = "idle")
          => mutex' = NoThread]_vars

\* A step in which the call of op by some thread ends with an answer.
Answers(op) ==
    /\ response'.op = op
    /\ \E t \in Threads : thr[t].pc # thr'[t].pc \/ calls' # calls

\* C23: a schedule call that ends with the scheduler's error (the connection
\* or the submission failed) leaves the session stored with status FAILED.
C23_ErrorMovesToFailed ==
    [][(/\ Answers("schedule")
        /\ response'.code = HTTP_400_BAD_REQUEST
        /\ response'.sid \in DOMAIN sessions')
       => sessions'[response'.sid].status = SESSION_STATUS_FAILED]_vars

\* The first half of C23: a successful schedule stores job_id and SCHEDULED in
\* one save, and no stored row has a job_id together with status SCHEDULING.
C23_JobIdWithScheduled ==
    [][(Answers("schedule") /\ response'.code = HTTP_200_OK)
       => /\ sessions'[response'.sid].status = SESSION_STATUS_SCHEDULED
          /\ sessions'[response'.sid].job_id # NoJob
          /\ \A s \in DOMAIN sessions' :
                sessions'[s].job_id # NoJob => sessions'[s].status # SESSION_STATUS_SCHEDULING]_vars

\* No operation of the engine stores a session with a terminal status: the
\* case C24 speaks about (a persisted FAILED or STOPPED) does not arise.
TerminalStatusNeverStored ==
    \A s \in DOMAIN sessions :
        sessions[s].status \notin {SESSION_STATUS_FAILED, SESSION_STATUS_STOPPED}

\* C25: each stored session has a job_id, a process_pid, or neither, never
\* both; one with neither has status STOPPED or SCHEDULING.
C25_JobOrProcessOrNeither ==
    \A s \in DOMAIN sessions :
        /\ ~(sessions[s].job_id # NoJob /\ sessions[s].process_pid # NoPid)
        /\ (sessions[s].job_id = NoJob /\ sessions[s].process_pid = NoPid)
           => sessions[s].status \in {SESSION_STATUS_STOPPED, SESSION_STATUS_SCHEDULING}

EngineOperations ==
    {"create_session", "query_status", "delete_session", "keep_alive_session",
     "suspend_sessions", "resume_sessions"}

\* C26: every engine operation ends with a status code and a message, none
\* with an exception that leaves the operation.
C26_NoUncaughtException ==
    response.op \in EngineOperations => response.code # UncaughtException

\* The same for a query_status call that found the session in STARTING.
C26_StartingAnswered ==
    [][\A t \in Clients, s \in SessionIds :
          (/\ thr[t].pc = "idle" /\ calls' # calls
           /\ response'.op = "query_status" /\ response'.sid = s /\ response'.t = t
           /\ s \in DOMAIN sessions /\ sessions[s].status = SESSION_STATUS_STARTING)
          => response'.code # UncaughtException]_vars

\* C27: delete_session sends kill for a job only when the stop before it did
\* not cancel the job: no kill is sent right after a stop that returned 200.
C27_KillOnlyAfterFailedCancel ==
    [][\A t \in Threads :
          (/\ thr[t].pc = "delete_kill" /\ thr'[t].pc = "delete_row"
           /\ response.op = "stop" /\ response.t = t)
          => response.code # HTTP_200_OK]_vars

\* C28: the configuration_id of every stored session is the id of a stored
\* configuration.
C28_ConfigurationStored ==
    \A s \in DOMAIN sessions : SettingsExists(settings, sessions[s].configuration_id)

\* The second half of C28 alone: a configuration's removal leaves no stored
\* session that refers to it.
C28_RemovalLeavesNoReference ==
    [][\A s \in DOMAIN sessions' :
          SettingsExists(settings, sessions'[s].configuration_id)
          => SettingsExists(settings', sessions'[s].configuration_id)]_vars

\* A step in which request_vocabulary for the stored session s ends.
ProbeEnds(s) ==
    /\ calls' # calls
    /\ response'.op = "request_vocabulary"
    /\ response'.sid = s
    /\ probe'.sid = s

\* C22: when the renderer cannot be reached and the scheduler reports the
\* session's job as FAILED, the session is stored with status FAILED
\* afterwards.
C22_FailedJobMovesToFailed ==
    [][\A s \in SessionIds :
          (/\ ProbeEnds(s)
           /\ s \in DOMAIN sessions /\ sessions[s].job_id # 0
           /\ probe'.answer = "RequestException"
           /\ probe'.job_state = "FAILED")
          => /\ s \in DOMAIN sessions'
             /\ sessions'[s].status = SESSION_STATUS_FAILED]_vars

\* The second half of C22: no probe and no query_status stores FAILED, and
\* none removes the row.
C22_NoOtherErrorFails ==
    [][\A s \in DOMAIN sessions :
          (response'.op \in {"request_vocabulary", "query_status"} /\ calls' # calls)
          => /\ s \in DOMAIN sessions'
             /\ sessions'[s].status # SESSION_STATUS_FAILED]_vars

\* No operation of the engine stores RUNNING or BUSY.
RunningNeverStored ==
    \A s \in DOMAIN sessions :
        sessions[s].status \notin {SESSION_STATUS_RUNNING, SESSION_STATUS_BUSY}

\* C29: query_status on a STARTING session whose configuration was created
\* with wait_until_running off leaves the session RUNNING.
C29_UnprobedStartingRuns ==
    [][\A s \in SessionIds :
          (/\ calls' # calls
           /\ response'.op = "query_status" /\ response'.sid = s
           /\ s \in DOMAIN sessions
           /\ sessions[s].status = SESSION_STATUS_STARTING
           /\ cfg_created[sessions[s].configuration_id] # NoParams
           /\ ~cfg_created[sessions[s].configuration_id].wait_until_running)
          => /\ s \in DOMAIN sessions'
             /\ sessions'[s].status = SESSION_STATUS_RUNNING]_vars

\* C30: a probe that the renderer answered with an HTTP status other than 200
\* is not reported as ready (200).
C30_OnlyStatus200Ready ==
    [][\A s \in SessionIds :
          (/\ ProbeEnds(s)
           /\ s \in DOMAIN sessions /\ sessions[s].http_host # ""
           /\ probe'.answer \in {"404", "500"})
          => response'.code # HTTP_200_OK]_vars

\* C31: a probe of a STARTING, RUNNING or BUSY session that cannot reach the
\* renderer and finds the job gone from the cluster ends with 404, the answer
\* query_status turns into 'Job has been cancelled'.
C31_JobGoneAnswered ==
    [][\A s \in SessionIds :
          (/\ ProbeEnds(s)
           /\ s \in DOMAIN sessions
           /\ sessions[s].status \in {SESSION_STATUS_STARTING, SESSION_STATUS_RUNNING,
                                      SESSION_STATUS_BUSY}
           /\ probe'.answer = "RequestException"
           /\ probe'.job_state = "CANCELLED")
          => response'.code = HTTP_404_NOT_FOUND]_vars

\* The same seen from query_status: a call that finds the session in STARTING,
\* RUNNING or BUSY answers 200 with the status, or 404 with STOPPED.
C31_CancelledReportedStopped ==
    [][\A s \in SessionIds :
          (/\ calls' # calls
           /\ response'.op = "query_status" /\ response'.sid = s
           /\ s \in DOMAIN sessions
           /\ sessions[s].status \in {SESSION_STATUS_STARTING, SESSION_STATUS_RUNNING,
                                      SESSION_STATUS_BUSY})
          => \/ response'.code = HTTP_200_OK
             \/ /\ response'.code = HTTP_404_NOT_FOUND
                /\ response'.status = SESSION_STATUS_STOPPED]_vars

\* C32: a save made by query_status leaves the stored valid_until of the
\* session as it is (the refresh the claim describes apart, which needs a
\* session that is already STARTING or BUSY and a probe answered with 200).
C32_ValidUntilKept ==
    [][\A t \in Clients :
          (/\ thr[t].pc \in {"query_save", "query_resave"}
           /\ thr'[t].pc = "idle"
           /\ thr[t].sid \in DOMAIN sessions
           /\ thr[t].sid \in DOMAIN sessions'
           /\ sessions[thr[t].sid].status \notin {SESSION_STATUS_STARTING, SESSION_STATUS_BUSY})
          => sessions'[thr[t].sid].valid_until = sessions[thr[t].sid].valid_until]_vars

\* The same for a query_status that runs alone: between its read and its save
\* no other operation has stored the session.
C32_ValidUntilKeptAlone ==
    [][\A t \in Clients :
          (/\ thr[t].pc \in {"query_save", "query_resave"}
           /\ thr'[t].pc = "idle"
           /\ thr[t].sid \in DOMAIN sessions
           /\ thr[t].sid \in DOMAIN sessions'
           /\ sessions[thr[t].sid] = thr[t].sess)
          => sessions'[thr[t].sid].valid_until = sessions[thr[t].sid].valid_until]_vars

\* C33: a session that was scheduled (it has a job and status SCHEDULED)
\* reaches RUNNING while the client goes on calling query_status.
C33_ScheduledReachesRunning ==
    \A s \in SessionIds :
        (s \in DOMAIN sessions /\ sessions[s].status = SESSION_STATUS_SCHEDULED
                               /\ sessions[s].job_id # NoJob)
        ~> (s \in DOMAIN sessions /\ sessions[s].status = SESSION_STATUS_RUNNING)

\* The step C33 names: query_status on a SCHEDULED or GETTING_HOSTNAME session
\* without host, whose job the cluster was last seen running, stores a host.
C33_HostResolved ==
    [][\A s \in SessionIds :
          (/\ calls' # calls
           /\ response'.op = "query_status" /\ response'.sid = s
           /\ s \in DOMAIN sessions
           /\ sessions[s].status \in {SESSION_STATUS_SCHEDULED,
                                      SESSION_STATUS_GETTING_HOSTNAME}
           /\ sessions[s].http_host = NoHost
           /\ sessions[s].job_id # NoJob
           /\ probe.sid = s /\ probe.job_state = "RUNNING")
          => \/ s \in DOMAIN sessions' /\ sessions'[s].http_host # NoHost
             \/ \E t \in Clients : thr'[t].sid = s /\ thr'[t].sess.http_host # NoHost]_vars

\* What the polling does achieve: a SCHEDULED session whose host is stored
\* gets to STARTING.
C33_ScheduledReachesStarting ==
    \A s \in SessionIds :
        (s \in DOMAIN sessions /\ sessions[s].status = SESSION_STATUS_SCHEDULED
                               /\ sessions[s].http_host # NoHost)
        ~> (s \in DOMAIN sessions /\ sessions[s].status = SESSION_STATUS_STARTING)

\* C34: once stop has sent the EXIT request, whatever comes of it, stop goes on
\* to cancel the job.
C34_ExitErrorStillCancels ==
    [][\A t \in Clients :
          (/\ jm_thr[t].pc = "stop_exit"
           /\ jm_thr'[t].pc # "stop_exit"
           /\ jm_stop'.t = t /\ jm_stop'.sent = <<"EXIT">>)
          => jm_thr'[t].pc = "cancel"]_vars

\* The first half of C34: EXIT is sent only for a configuration with
\* graceful_exit, only before the cancel, and a stop that cancels for such a
\* configuration has sent it.
C34_ExitOnlyIfGraceful ==
    /\ jm_stop.sent \in {<<>>, <<"EXIT">>, <<"cancel">>, <<"EXIT", "cancel">>}
    /\ jm_stop.sent \in {<<"EXIT">>, <<"EXIT", "cancel">>} => jm_stop.graceful_exit
    /\ jm_stop.sent = <<"cancel">> => ~jm_stop.graceful_exit

C39_OperationCompletes ==
    \A t \in Clients : (jm_thr[t].pc # "idle") ~> (jm_thr[t].pc = "idle")

\* The first half of C39: no thread waits for the mutex while it holds it.
C39_NoReacquire ==
    \A t \in Clients : jm_thr[t].pc \in {"connect_acquire", "acquire"} => mutex # t

\* A thread that has left its method, or is at the start of one, and still
\* holds the mutex: __connect raised before its release.
MutexLeaked ==
    \E u \in Clients : mutex = u /\ jm_thr[u].pc \in {"idle", "connect_acquire", "acquire"}

\* What does hold: every thread gets to the end of its method unless the mutex
\* has been left locked by a __connect that raised.
C39_CompletesUnlessLeaked ==
    \A t \in Clients : (jm_thr[t].pc # "idle") ~> (jm_thr[t].pc = "idle" \/ MutexLeaked)

\* C36: the save of a query_status or keep_alive_session call whose session
\* has no row any more (delete_session removed it after the call had read it)
\* stores no row.
C36_SaveAddsNoRow ==
    [][\A t \in Clients :
          (/\ Leaves(t, "keep_alive_save") \/ Leaves(t, "query_save")
           /\ thr[t].sid \notin DOMAIN sessions)
          => thr[t].sid \notin DOMAIN sessions']_vars

\* C37: the save of keep_alive_session changes the valid_until of the stored
\* row and nothing else, whatever other operations have stored since the row
\* was read.
C37_SaveKeepsOtherFields ==
    [][\A t \in Clients :
          (Leaves(t, "keep_alive_save") /\ thr[t].sid \in DOMAIN sessions)
          => sessions' = [sessions EXCEPT
                             ![thr[t].sid].valid_until = thr[t].sess.valid_until]]_vars

====
